---- MODULE Spec2Model ----
(***************************************************************************)
(* Model of travel_assistant_agent.py: the get_weather tool (request,      *)
(* response reduction, failure handling), the search_attractions tool, the *)
(* agent loop driven by the external decision-maker, and main.             *)
(***************************************************************************)
EXTENDS Integers, Sequences, FiniteSets, TLC

(***************************************************************************)
(* Python / JSON values.  Every value is a record tagged by its kind k.    *)
(*   null (None), num, str (plain text), list, obj (dict), and jsontext:   *)
(*   a str that is the JSON encoding of the value v.                       *)
(***************************************************************************)
Null == [k |-> "null"]
Num(n) == [k |-> "num", v |-> n]
Str(s) == [k |-> "str", v |-> s]
List(s) == [k |-> "list", v |-> s]
Obj(r) == [k |-> "obj", v |-> r]
JsonText(x) == [k |-> "jsontext", v |-> x]
EmptyDict == Obj([key \in {} |-> Null])

IsPyStr(x) == x.k \in {"str", "jsontext"}

\* type(x).__name__
PyType(x) ==
    CASE x.k = "null" -> "NoneType"
      [] x.k = "num" -> "int"
      [] x.k = "str" -> "str"
      [] x.k = "jsontext" -> "str"
      [] x.k = "list" -> "list"
      [] x.k = "obj" -> "dict"

\* bool(x): None, 0, "", [] and {} are falsy
Truthy(x) ==
    CASE x.k = "null" -> FALSE
      [] x.k = "num" -> x.v # 0
      [] x.k = "str" -> x.v # ""
      [] x.k = "jsontext" -> TRUE
      [] x.k = "list" -> x.v # <<>>
      [] x.k = "obj" -> DOMAIN x.v # {}

(***************************************************************************)
(* Exceptions and results of evaluating an expression: a result either     *)
(* carries a value (exc = NoExc) or the exception raised.                  *)
(***************************************************************************)
NoExc == [type |-> "none", msg |-> ""]
Exc(t, m) == [type |-> t, msg |-> m]
Return(x) == [exc |-> NoExc, val |-> x]
Raise(t, m) == [exc |-> Exc(t, m), val |-> Null]
Raised(r) == r.exc # NoExc

\* The classes an exception type is an instance of (its MRO, BaseException omitted).
ExcBases(t) ==
    CASE t = "HTTPError" -> {"HTTPError", "RequestException", "OSError", "Exception"}
      [] t = "Timeout" -> {"Timeout", "RequestException", "OSError", "Exception"}
      [] t = "ConnectionError" -> {"ConnectionError", "RequestException", "OSError", "Exception"}
      [] t = "JSONDecodeError" -> {"JSONDecodeError", "RequestException", "ValueError", "OSError", "Exception"}
      [] t = "AttributeError" -> {"AttributeError", "Exception"}
      [] t = "TypeError" -> {"TypeError", "Exception"}
      [] t = "KeyError" -> {"KeyError", "LookupError", "Exception"}
      [] OTHER -> {}

IsInstance(e, cls) == cls \in ExcBases(e.type)

\* The first result of rs (in evaluation order) that raised, if any.
FirstRaised(rs) ==
    IF \E i \in 1..Len(rs) : Raised(rs[i])
    THEN rs[CHOOSE i \in 1..Len(rs) : Raised(rs[i]) /\ \A j \in 1..(i-1) : ~Raised(rs[j])]
    ELSE Return(Null)

\* AttrGet reading the key as x[key]: KeyError when absent.
AttrGetStrict(x, key, default) ==
    IF x.k = "obj"
    THEN (IF key \in DOMAIN x.v THEN Return(x.v[key])
          ELSE Raise("KeyError", "'" \o key \o "'"))
    ELSE Raise("AttributeError", "'" \o PyType(x) \o "' object has no attribute 'get'")

\* x.get(key, default): only a dict has .get
AttrGet(x, key, default) ==
    IF x.k = "obj"
    THEN Return(IF key \in DOMAIN x.v THEN x.v[key] ELSE default)
    ELSE Raise("AttributeError", "'" \o PyType(x) \o "' object has no attribute 'get'")

\* x.get(key)
AttrGet1(x, key) == AttrGet(x, key, Null)

\* A set of strings as a sequence (a dict iterates over its keys).
RECURSIVE SetToSeq(_)
SetToSeq(S) ==
    IF S = {} THEN <<>>
    ELSE LET x == CHOOSE y \in S : TRUE IN <<x>> \o SetToSeq(S \ {x})

\* iter(x) as the sequence of items a for loop visits.  A str yields its
\* characters (each a one-character str, content not tracked), a dict its keys.
Iterate(x) ==
    CASE x.k = "list" -> Return(x.v)
      [] x.k = "str" -> Return([i \in 1..Len(x.v) |-> Str("c")])
      [] x.k = "obj" -> Return([i \in 1..Cardinality(DOMAIN x.v) |-> Str(SetToSeq(DOMAIN x.v)[i])])
      [] OTHER -> Raise("TypeError", "'" \o PyType(x) \o "' object is not iterable")

(***************************************************************************)
(* get_weather                                                             *)
(***************************************************************************)
ForecastDays == 7
RequestTimeout == 15
WeatherUrl == "https://api.weatherapi.com/v1/forecast.json"

\* The outbound request built at lines 72-82.
WeatherRequest(api_key, destination) ==
    [url |-> WeatherUrl, key |-> api_key, q |-> destination, days |-> ForecastDays,
     aqi |-> "no", alerts |-> "no", timeout |-> RequestTimeout]

\* requests.get(url, params=params, timeout=15) against an upstream outcome.
RequestsGet(outcome) ==
    CASE outcome.net = "timeout" -> Raise("Timeout", "Read timed out. (read timeout=15)")
      [] outcome.net = "connerr" -> Raise("ConnectionError", "Failed to establish a new connection")
      [] OTHER -> Return(outcome.resp)

\* resp.raise_for_status(): HTTPError for a 4xx or 5xx status only.
RaiseForStatus(resp) ==
    IF 400 <= resp.status /\ resp.status < 500
    THEN Raise("HTTPError", ToString(resp.status) \o " Client Error")
    ELSE IF 500 <= resp.status /\ resp.status < 600
    THEN Raise("HTTPError", ToString(resp.status) \o " Server Error")
    ELSE Return(Null)

\* resp.json()
RespJson(resp) ==
    IF resp.body.k = "jsontext" THEN Return(resp.body.v)
    ELSE Raise("JSONDecodeError", "Expecting value: line 1 column 1 (char 0)")

\* resp.text
RespText(resp) == resp.body

\* The value of a block of steps evaluated in order: the first exception
\* raised among them, otherwise the result built from their values.
Finish(steps, result) ==
    IF Raised(FirstRaised(steps)) THEN FirstRaised(steps) ELSE Return(result)

\* r then F on its value, unless r raised.
Then(r, F(_)) == IF Raised(r) THEN r ELSE F(r.val)

\* day.get("day", {}).get(key)
DayGet(day, key) == Then(AttrGet(day, "day", EmptyDict), LAMBDA d : AttrGet1(d, key))

\* x or {}
OrEmptyDict(x) == IF Truthy(x) THEN x ELSE EmptyDict

\* One appended forecast entry, lines 111-117.
DayEntry(day) ==
    LET date == AttrGet1(day, "date")
        maxt == DayGet(day, "maxtemp_c")
        mint == DayGet(day, "mintemp_c")
        rain == DayGet(day, "daily_chance_of_rain")
        cond == Then(DayGet(day, "condition"), LAMBDA c : AttrGet1(OrEmptyDict(c), "text"))
    IN Finish(<<date, maxt, mint, rain, cond>>,
              Obj([date |-> date.val, maxtemp_c |-> maxt.val, mintemp_c |-> mint.val,
                   daily_chance_of_rain |-> rain.val, condition |-> cond.val]))

\* ForecastLoop keeping the first seven entries only.
ForecastLoopCapped(items) ==
    LET n == IF Len(items) < 7 THEN Len(items) ELSE 7
        entries == [i \in 1..n |-> DayEntry(items[i])]
    IN Finish(entries, List([i \in 1..n |-> entries[i].val]))

\* ForecastLoop inserting each entry at the front.
ForecastLoopReversed(items) ==
    LET entries == [i \in 1..Len(items) |-> DayEntry(items[i])]
    IN Finish(entries, List([i \in 1..Len(items) |-> entries[Len(items) + 1 - i].val]))

\* The loop of lines 110-117 over the items of forecasts.
ForecastLoop(items) ==
    LET entries == [i \in 1..Len(items) |-> DayEntry(items[i])]
    IN Finish(entries, List([i \in 1..Len(items) |-> entries[i].val]))

\* Lines 90-119: the summary built from location, current and forecasts.
BuildSummary(location, current, forecasts) ==
    LET lname == AttrGet1(location, "name")
        lregion == AttrGet1(location, "region")
        lcountry == AttrGet1(location, "country")
        llocaltime == AttrGet1(location, "localtime")
        llat == AttrGet1(location, "lat")
        llon == AttrGet1(location, "lon")
        ctext == Then(AttrGet(current, "condition", EmptyDict), LAMBDA c : AttrGet1(c, "text"))
        ctemp == AttrGet1(current, "temp_c")
        cfeels == AttrGet1(current, "feelslike_c")
        cwind == AttrGet1(current, "wind_kph")
        chum == AttrGet1(current, "humidity")
        ccloud == AttrGet1(current, "cloud")
        loop == Then(Iterate(forecasts), ForecastLoop)
    IN Finish(<<lname, lregion, lcountry, llocaltime, llat, llon,
                ctext, ctemp, cfeels, cwind, chum, ccloud, loop>>,
              Obj([location |-> Obj([name |-> lname.val, region |-> lregion.val,
                                     country |-> lcountry.val, localtime |-> llocaltime.val,
                                     lat |-> llat.val, lon |-> llon.val]),
                   current |-> Obj([condition |-> ctext.val, temp_c |-> ctemp.val,
                                    feelslike_c |-> cfeels.val, wind_kph |-> cwind.val,
                                    humidity |-> chum.val, cloud |-> ccloud.val]),
                   forecast |-> loop.val]))

\* Lines 86-119: the reduction of the decoded response to the summary.
Summarize(data) ==
    Then(AttrGet(data, "location", EmptyDict), LAMBDA location :
    Then(AttrGet(data, "current", EmptyDict), LAMBDA current :
    Then(AttrGet(data, "forecast", EmptyDict), LAMBDA fc :
    Then(AttrGet(fc, "forecastday", List(<<>>)), LAMBDA forecasts :
    BuildSummary(location, current, forecasts)))))

\* The try body after the response arrived, lines 83-119.
OnResponse(resp) ==
    Then(RaiseForStatus(resp), LAMBDA none :
    Then(RespJson(resp), LAMBDA data :
    Then(Summarize(data), LAMBDA summary :
    Return(JsonText(summary)))))

\* The try body, lines 82-119.
TryBody(outcome) == Then(RequestsGet(outcome), OnResponse)

\* Whether the local resp is bound when a handler runs ('resp' in locals()).
RespBound(outcome) == ~Raised(RequestsGet(outcome))

\* Handlers whose second clause catches requests' exceptions only.
HandlersRequestsOnly(e, outcome) ==
    IF IsInstance(e, "HTTPError")
    THEN Return(JsonText(Obj([error |-> Str("HTTP error from WeatherAPI: " \o e.msg),
                               details |-> IF RespBound(outcome) THEN RespText(outcome.resp) ELSE Null])))
    ELSE IF IsInstance(e, "RequestException")
    THEN Return(JsonText(Obj([error |-> Str("Unexpected error: " \o e.msg)])))
    ELSE [exc |-> e, val |-> Null]

\* Handlers with the generic clause first: it catches HTTPError too.
HandlersGenericFirst(e, outcome) ==
    IF IsInstance(e, "Exception")
    THEN Return(JsonText(Obj([error |-> Str("Unexpected error: " \o e.msg)])))
    ELSE [exc |-> e, val |-> Null]

\* The except clauses, lines 121-124, applied to the exception e of the try body.
Handlers(e, outcome) ==
    IF IsInstance(e, "HTTPError")
    THEN Return(JsonText(Obj([error |-> Str("HTTP error from WeatherAPI: " \o e.msg),
                               details |-> IF RespBound(outcome) THEN RespText(outcome.resp) ELSE Null])))
    ELSE IF IsInstance(e, "Exception")
    THEN Return(JsonText(Obj([error |-> Str("Unexpected error: " \o e.msg)])))
    ELSE [exc |-> e, val |-> Null]

\* The try statement, lines 81-124: the body, or the handler of what it raised.
TryExcept(body, outcome) == IF Raised(body) THEN Handlers(body.exc, outcome) ELSE body

MissingKeyMessage == "Missing WEATHER_API_KEY. Set the environment variable to your WeatherAPI.com key."

\* What an invocation amounts to: the value returned, the exception raised
\* past the tool, the outbound requests issued.
Invocation(res, reqs) == [ret |-> res.val, exc |-> res.exc, requests |-> reqs]

\* get_weather testing the credential with "is None": an empty key is used.
GetWeatherNoneOnly(api_key, destination, outcome) ==
    IF api_key = Null
    THEN Invocation(Return(JsonText(Obj([error |-> Str(MissingKeyMessage)]))), <<>>)
    ELSE Invocation(TryExcept(TryBody(outcome), outcome),
                    <<WeatherRequest(api_key, destination)>>)

\* get_weather repeating the request once after a timeout.
GetWeatherRetry(api_key, destination, outcome) ==
    IF ~Truthy(api_key)
    THEN Invocation(Return(JsonText(Obj([error |-> Str(MissingKeyMessage)]))), <<>>)
    ELSE Invocation(TryExcept(TryBody(outcome), outcome),
                    IF outcome.net = "timeout"
                    THEN <<WeatherRequest(api_key, destination), WeatherRequest(api_key, destination)>>
                    ELSE <<WeatherRequest(api_key, destination)>>)

\* get_weather(destination) with os.getenv("WEATHER_API_KEY") = api_key and
\* the upstream behaving as outcome.
GetWeather(api_key, destination, outcome) ==
    IF ~Truthy(api_key)
    THEN Invocation(Return(JsonText(Obj([error |-> Str(MissingKeyMessage)]))), <<>>)
    ELSE Invocation(TryExcept(TryBody(outcome), outcome),
                    <<WeatherRequest(api_key, destination)>>)

(***************************************************************************)
(* Upstream weather outcomes the tool is exercised with.                   *)
(***************************************************************************)
MaxMixedDays == 2
MaxDays == 8

\* Marks an optional field left out when an object is built.
Absent == [k |-> "absent"]
MkObj(r) == Obj([key \in {f \in DOMAIN r : r[f] # Absent} |-> r[key]])

DateStr(n) == "2024-01-0" \o ToString(n)
WellDay(n) ==
    Obj([date |-> Str(DateStr(n)),
         day |-> Obj([maxtemp_c |-> Num(20 + n), mintemp_c |-> Num(10 + n),
                      daily_chance_of_rain |-> Num(10 * n),
                      condition |-> Obj([text |-> Str("Sunny")])])])

DayOf(cond) == MkObj([maxtemp_c |-> Num(25), mintemp_c |-> Absent,
                      daily_chance_of_rain |-> Num(0), condition |-> cond])

DayShapes ==
    {Null, Str("day"), EmptyDict, WellDay(1), WellDay(2),
     Obj([date |-> Str(DateStr(3))]),
     Obj([date |-> Str(DateStr(3)), day |-> Null]),
     Obj([date |-> Str(DateStr(3)), day |-> EmptyDict]),
     Obj([day |-> Str("hot")])}
    \cup {MkObj([date |-> Str(DateStr(4)), day |-> DayOf(c)]) :
            c \in {Absent, Null, Str(""), Str("Rain"), EmptyDict}}

SeqsUpTo(S, n) == UNION {[1..m -> S] : m \in 0..n}

MixedLists == {List(s) : s \in SeqsUpTo(DayShapes, MaxMixedDays)}
LongLists == {List([i \in 1..n |-> WellDay(i)]) : n \in 0..MaxDays}

NonListForecastdays == {Null, Num(3), Str(""), Str("ab"), EmptyDict, Obj([a |-> Null])}

ForecastOf(fd) == MkObj([forecastday |-> fd])

SmallForecasts ==
    {Absent, Null, Str("none"), List(<<>>)}
    \cup {ForecastOf(fd) : fd \in {Absent} \cup NonListForecastdays}
    \cup {ForecastOf(List(<<WellDay(1)>>))}

ListForecasts == {ForecastOf(fd) : fd \in MixedLists \cup LongLists}

WellLocation ==
    Obj([name |-> Str("Paris"), region |-> Str("Ile-de-France"), country |-> Str("France"),
         localtime |-> Str("2024-01-01 10:00"), lat |-> Num(48), lon |-> Num(2)])

LocationShapes ==
    {Absent, Null, Str("Paris"), List(<<>>), EmptyDict, Obj([name |-> Str("Paris")]), WellLocation}

CurrentOf(cond) ==
    MkObj([condition |-> cond, temp_c |-> Num(25), feelslike_c |-> Num(26),
           wind_kph |-> Absent, humidity |-> Num(40), cloud |-> Num(0)])

WellCurrent == CurrentOf(Obj([text |-> Str("Sunny")]))

CurrentShapes ==
    {Absent, Null, Num(1), EmptyDict, WellCurrent}
    \cup {CurrentOf(c) : c \in {Absent, Null, Str("Sunny"), EmptyDict}}

DataOf(loc, cur, fc) == MkObj([location |-> loc, current |-> cur, forecast |-> fc])

WellData == DataOf(WellLocation, WellCurrent, ForecastOf(List(<<WellDay(1), WellDay(2)>>)))

Datas ==
    {Null, Num(1), Str("ok"), List(<<>>)}
    \cup {DataOf(loc, cur, fc) : loc \in LocationShapes, cur \in CurrentShapes, fc \in SmallForecasts}
    \cup {DataOf(WellLocation, WellCurrent, fc) : fc \in ListForecasts}
    \cup {DataOf(Absent, Absent, ForecastOf(fd)) : fd \in MixedLists}

ErrorBody == JsonText(Obj([error |-> Obj([code |-> Num(1006), message |-> Str("No matching location found.")])]))

SmallBodies == {Str(""), Str("<html>"), ErrorBody, JsonText(WellData)}
Bodies == {Str(""), Str("<html>")} \cup {JsonText(d) : d \in Datas}

Statuses == {200, 204, 304, 400, 401, 404, 500, 503}

Response(st, b) == [status |-> st, body |-> b]

\* The upstream outcomes a whole run of the program is explored with.
RunOutcomes ==
    {[net |-> "timeout"],
     [net |-> "response", resp |-> Response(200, JsonText(WellData))],
     [net |-> "response", resp |-> Response(200, JsonText(Null))],
     [net |-> "response", resp |-> Response(401, ErrorBody)]}

Outcomes ==
    {[net |-> "timeout"], [net |-> "connerr"]}
    \cup {[net |-> "response", resp |-> Response(200, b)] : b \in Bodies}
    \cup {[net |-> "response", resp |-> Response(st, b)] : st \in Statuses \ {200}, b \in SmallBodies}

(***************************************************************************)
(* Text handling of main: strings are sequences of characters.             *)
(***************************************************************************)
Whitespace == {" ", "\t"}

RECURSIVE LStrip(_)
LStrip(s) == IF s # <<>> /\ Head(s) \in Whitespace THEN LStrip(Tail(s)) ELSE s

RECURSIVE RStrip(_)
RStrip(s) ==
    IF s # <<>> /\ s[Len(s)] \in Whitespace THEN RStrip(SubSeq(s, 1, Len(s) - 1)) ELSE s

\* s.strip()
Strip(s) == RStrip(LStrip(s))

\* " ".join(words)
RECURSIVE JoinSpace(_)
JoinSpace(words) ==
    IF words = <<>> THEN <<>>
    ELSE IF Len(words) = 1 THEN words[1]
    ELSE words[1] \o <<" ">> \o JoinSpace(Tail(words))

\* s.replace(' ', '_')
ReplaceSpace(s) == [i \in 1..Len(s) |-> IF s[i] = " " THEN "_" ELSE s[i]]

\* ReadDestination without the trimming.
ReadDestinationRaw(input) ==
    IF input.argv # <<>> THEN JoinSpace(input.argv) ELSE input.line

\* The destination main derives from its input, lines 205-208.
ReadDestination(input) ==
    IF input.argv # <<>> THEN Strip(JoinSpace(input.argv)) ELSE Strip(input.line)

\* The output file name of line 225.
OutPath(dest) == <<"travel_assistant_output_">> \o ReplaceSpace(dest) \o <<".json">>

MaxArgs == 2
MaxIterations == 2
KResults == 8

\* Command-line words and prompt lines the program is started with.
Words == {<<>>, <<" ">>, <<"a">>}
Lines == {<<>>, <<" ">>, <<"\t", " ">>, <<"a">>, <<" ", "a", "\t">>, <<"a", " ", "a">>}

\* What the process is started with: the arguments after the script name,
\* and the line typed at the prompt when there are none.
Inputs ==
    {[argv |-> a, line |-> <<>>] : a \in SeqsUpTo(Words, MaxArgs) \ {<<>>}}
    \cup {[argv |-> <<>>, line |-> l] : l \in Lines}

\* The tool calls the decision-maker may ask for in one turn: a single call,
\* or the weather call followed by the search call.
ToolArgs == {<<>>, <<"a">>}
WeatherCalls == {[tool |-> "get_weather", arg |-> a] : a \in ToolArgs}
SearchCalls == {[tool |-> "search_attractions", arg |-> a] : a \in ToolArgs}
Turns ==
    {<<c>> : c \in WeatherCalls \cup SearchCalls}
    \cup {<<w, s>> : w \in WeatherCalls, s \in SearchCalls}

EnvKeys == {Null, Str(""), Str("key")}

NoWeather == [called |-> FALSE]
NoSearch == [called |-> FALSE]
NoOutcome == [net |-> "unused"]

VARIABLES pc, env, input, destination, agentBuilt, iterations, llmCalls, llmFailed,
          pending, weather, httpLog, search, stdout, outFile,
          exitStatus, fault

vars == <<pc, env, input, destination, agentBuilt, iterations, llmCalls, llmFailed,
          pending, weather, httpLog, search, stdout, outFile,
          exitStatus, fault>>

Init ==
    /\ pc = "main"
    /\ env \in [WEATHER_API_KEY : EnvKeys, GEMINI_API_KEY : {Null, Str("g")}]
    /\ input \in Inputs
    /\ destination = <<>>
    /\ agentBuilt = FALSE
    /\ iterations = 0
    /\ llmCalls = 0
    /\ llmFailed = FALSE
    /\ pending = <<>>
    /\ weather = NoWeather
    /\ httpLog = <<>>
    /\ search = NoSearch
    /\ stdout = <<>>
    /\ outFile = <<>>
    /\ exitStatus = -1
    /\ fault = NoExc

agentVars == <<agentBuilt, iterations, llmCalls, llmFailed, pending, weather, httpLog, search>>

\* main, lines 205-212: the destination is empty after trimming.
MainNoDestination ==
    /\ pc = "main"
    /\ ReadDestination(input) = <<>>
    /\ destination' = ReadDestination(input)
    /\ stdout' = Append(stdout, "No destination provided.")
    /\ exitStatus' = 1
    /\ pc' = "exited"
    /\ UNCHANGED <<env, input, agentVars, outFile, fault>>

\* main, lines 205-217: a destination is given; warn when GEMINI_API_KEY is unset.
MainDestination ==
    /\ pc = "main"
    /\ ReadDestination(input) # <<>>
    /\ destination' = ReadDestination(input)
    /\ stdout' = IF ~Truthy(env.GEMINI_API_KEY)
                 THEN Append(stdout, "Warning: GEMINI_API_KEY not set.")
                 ELSE stdout
    /\ pc' = "run_query"
    /\ UNCHANGED <<env, input, agentVars, outFile, exitStatus, fault>>

\* run_query line 195 and build_agent, lines 167-187: the executor is built.
BuildAgent ==
    /\ pc = "run_query"
    /\ agentBuilt' = TRUE
    /\ pc' = "agent"
    /\ UNCHANGED <<env, input, destination, iterations, llmCalls, llmFailed, pending,
                   weather, httpLog, search, stdout, outFile, exitStatus, fault>>

\* executor.invoke, line 201: the decision-maker asks for tool calls.
LLMCallsTools ==
    /\ pc = "agent"
    /\ iterations < MaxIterations
    /\ \E turn \in Turns : pending' = turn
    /\ llmCalls' = llmCalls + 1
    /\ iterations' = iterations + 1
    /\ pc' = "tools"
    /\ UNCHANGED <<env, input, destination, agentBuilt, llmFailed, weather, httpLog,
                   search, stdout, outFile, exitStatus, fault>>

\* executor.invoke, line 201: the decision-maker gives its final answer.
LLMFinishes ==
    /\ pc = "agent"
    /\ iterations < MaxIterations
    /\ llmCalls' = llmCalls + 1
    /\ pc' = "print"
    /\ UNCHANGED <<env, input, destination, agentBuilt, iterations, llmFailed, pending,
                   weather, httpLog, search, stdout, outFile, exitStatus, fault>>

\* LLMFails with the failure swallowed: the run goes on to print a result.
LLMFailsSwallowed ==
    /\ pc = "agent"
    /\ iterations < MaxIterations
    /\ llmCalls' = llmCalls + 1
    /\ llmFailed' = TRUE
    /\ pc' = "print"
    /\ UNCHANGED <<env, input, destination, agentBuilt, iterations, pending,
                   weather, httpLog, search, stdout, outFile, exitStatus, fault>>

\* executor.invoke, line 201: the decision-maker call fails; nothing in
\* run_query (190-201) or main (219) catches it, the process terminates.
LLMFails ==
    /\ pc = "agent"
    /\ iterations < MaxIterations
    /\ llmCalls' = llmCalls + 1
    /\ llmFailed' = TRUE
    /\ fault' = Exc("LLMError", "decision-maker call failed")
    /\ exitStatus' = 1
    /\ pc' = "crashed"
    /\ UNCHANGED <<env, input, destination, agentBuilt, iterations, pending,
                   weather, httpLog, search, stdout, outFile>>

\* executor.invoke, line 201: the executor stops at its iteration limit and
\* returns its canned answer.
IterationLimit ==
    /\ pc = "agent"
    /\ iterations = MaxIterations
    /\ pc' = "print"
    /\ UNCHANGED <<env, input, destination, agentBuilt, iterations, llmCalls, llmFailed, pending,
                   weather, httpLog, search, stdout, outFile, exitStatus, fault>>

\* Where the executor goes after a tool call of the current turn returned.
AfterTool == IF Len(pending) > 1 THEN "tools" ELSE "agent"

\* The executor takes the result r of a get_weather call under outcome (the
\* upstream is observed only if a request went out): the returned text goes
\* back to the decision-maker, an exception ends the run.
TakeWeatherResult(r, outcome) ==
    /\ weather' = [called |-> TRUE, api_key |-> env.WEATHER_API_KEY,
                   destination |-> Head(pending).arg,
                   outcome |-> IF r.requests = <<>> THEN NoOutcome ELSE outcome,
                   ret |-> r.ret, exc |-> r.exc, requests |-> r.requests]
    /\ httpLog' = httpLog \o r.requests
    /\ IF r.exc = NoExc
       THEN /\ pc' = AfterTool
            /\ pending' = Tail(pending)
            /\ UNCHANGED <<fault, exitStatus>>
       ELSE /\ pc' = "crashed"
            /\ fault' = r.exc
            /\ exitStatus' = 1
            /\ UNCHANGED pending

\* The executor runs get_weather (lines 55-124) for the next pending call,
\* the upstream answering with one of the outcomes outs.
RunGetWeather(outs) ==
    /\ pc = "tools"
    /\ pending # <<>>
    /\ Head(pending).tool = "get_weather"
    /\ \E outcome \in outs :
         TakeWeatherResult(GetWeather(env.WEATHER_API_KEY, Head(pending).arg, outcome), outcome)
    /\ UNCHANGED <<env, input, destination, agentBuilt, iterations, llmCalls, llmFailed,
                   search, stdout, outFile>>

\* get_weather within a whole run of the program, over a few upstream outcomes.
ToolGetWeather == RunGetWeather(RunOutcomes)

\* The executor runs search_attractions (the tool of lines 135-143) and the
\* provider answers with at most k results.
ToolSearch ==
    /\ pc = "tools"
    /\ pending # <<>>
    /\ Head(pending).tool = "search_attractions"
    /\ \E n \in {0, KResults} :
         search' = [called |-> TRUE, query |-> Head(pending).arg, failed |-> FALSE, results |-> n]
    /\ pc' = AfterTool
    /\ pending' = Tail(pending)
    /\ UNCHANGED <<env, input, destination, agentBuilt, iterations, llmCalls, llmFailed,
                   weather, httpLog, stdout, outFile, exitStatus, fault>>

\* The executor runs search_attractions and the provider fails: the tool of
\* lines 135-143 is built without any error handler and neither the executor
\* built at line 186, run_query (201) nor main (219) catches the exception.
ToolSearchFails ==
    /\ pc = "tools"
    /\ pending # <<>>
    /\ Head(pending).tool = "search_attractions"
    /\ search' = [called |-> TRUE, query |-> Head(pending).arg, failed |-> TRUE, results |-> 0]
    /\ fault' = Exc("DuckDuckGoSearchException", "search provider failed")
    /\ exitStatus' = 1
    /\ pc' = "crashed"
    /\ UNCHANGED <<env, input, destination, agentBuilt, iterations, llmCalls, llmFailed, pending,
                   weather, httpLog, stdout, outFile>>

\* main, lines 220-222: the result is printed.
MainPrint ==
    /\ pc = "print"
    /\ stdout' = stdout \o <<"=== Travel Assistant Result ===", "output">>
    /\ pc' = "write"
    /\ UNCHANGED <<env, input, destination, agentVars, outFile, exitStatus, fault>>

\* main, lines 225-228: the raw result is written to the output file.
MainWriteFile ==
    /\ pc = "write"
    /\ outFile' = OutPath(destination)
    /\ stdout' = Append(stdout, "Saved raw agent output to")
    /\ exitStatus' = 0
    /\ pc' = "done"
    /\ UNCHANGED <<env, input, destination, agentVars, fault>>

\* main, line 226: open() fails.
MainWriteFileFails ==
    /\ pc = "write"
    /\ fault' = Exc("OSError", "cannot open output file")
    /\ exitStatus' = 1
    /\ pc' = "crashed"
    /\ UNCHANGED <<env, input, destination, agentVars, stdout, outFile>>

Next ==
    \/ MainNoDestination
    \/ MainDestination
    \/ BuildAgent
    \/ LLMCallsTools
    \/ LLMFinishes
    \/ LLMFails
    \/ IterationLimit
    \/ ToolGetWeather
    \/ ToolSearch
    \/ ToolSearchFails
    \/ MainPrint
    \/ MainWriteFile
    \/ MainWriteFileFails

Spec == Init /\ [][Next]_vars

(***************************************************************************)
(* get_weather on its own: the executor is about to run one get_weather    *)
(* call (a state of Spec after the first turn of the decision-maker), and  *)
(* the upstream may answer with any of Outcomes.                           *)
(***************************************************************************)
WeatherInit ==
    /\ pc = "tools"
    /\ env \in [WEATHER_API_KEY : EnvKeys, GEMINI_API_KEY : {Null, Str("g")}]
    /\ input = [argv |-> << <<"a">> >>, line |-> <<>>]
    /\ destination = <<"a">>
    /\ agentBuilt = TRUE
    /\ iterations = 1
    /\ llmCalls = 1
    /\ llmFailed = FALSE
    /\ \E a \in ToolArgs : pending = <<[tool |-> "get_weather", arg |-> a]>>
    /\ weather = NoWeather
    /\ httpLog = <<>>
    /\ search = NoSearch
    /\ stdout = IF ~Truthy(env.GEMINI_API_KEY) THEN <<"Warning: GEMINI_API_KEY not set.">> ELSE <<>>
    /\ outFile = <<>>
    /\ exitStatus = -1
    /\ fault = NoExc

InvokeGetWeather == RunGetWeather(Outcomes)

WeatherNext == InvokeGetWeather

WeatherSpec == WeatherInit /\ [][WeatherNext]_vars

(***************************************************************************)
(* Vocabulary of the properties: what the last get_weather invocation was  *)
(* given and what it returned.                                             *)
(***************************************************************************)
IsObj(x) == x.k = "obj"
Has(x, key) == IsObj(x) /\ key \in DOMAIN x.v

\* The upstream value under key, null when the key is absent.
Up(x, key) == IF Has(x, key) THEN x.v[key] ELSE Null

Invoked == weather.called
KeySet == weather.called /\ weather.api_key.k = "str" /\ weather.api_key.v # ""
Responded == KeySet /\ weather.outcome.net = "response"
Status == weather.outcome.resp.status
Body == weather.outcome.resp.body
Decoded == Responded /\ Body.k = "jsontext"
Data == Body.v

ReturnedText == weather.exc = NoExc /\ IsPyStr(weather.ret)
ReturnedObject == ReturnedText /\ weather.ret.k = "jsontext" /\ IsObj(weather.ret.v)
Payload == weather.ret.v
ErrorPayload == ReturnedObject /\ Has(Payload, "error") /\ Payload.v.error.k = "str"
SummaryPayload == ReturnedObject /\ DOMAIN Payload.v = {"location", "current", "forecast"}

\* A forecastday entry the reduction cannot read.
BadDay(e) ==
    IF ~IsObj(e) THEN TRUE
    ELSE IF ~Has(e, "day") THEN FALSE
    ELSE IF ~IsObj(e.v.day) THEN TRUE
    ELSE Has(e.v.day, "condition") /\ Truthy(e.v.day.v.condition) /\ ~IsObj(e.v.day.v.condition)

\* A forecastday value the loop cannot walk: not iterable, or yielding an
\* item that is not a readable entry.  An empty str or dict yields nothing.
BadForecastday(fd) ==
    CASE fd.k = "list" -> \E i \in 1..Len(fd.v) : BadDay(fd.v[i])
      [] fd.k = "str" -> fd.v # ""
      [] fd.k = "obj" -> DOMAIN fd.v # {}
      [] OTHER -> TRUE

\* A decoded body whose shape the reduction cannot traverse.
Untraversable(d) ==
    \/ ~IsObj(d)
    \/ Has(d, "location") /\ ~IsObj(d.v.location)
    \/ Has(d, "current") /\ ~IsObj(d.v.current)
    \/ Has(d, "current") /\ Has(d.v.current, "condition") /\ ~IsObj(d.v.current.v.condition)
    \/ Has(d, "forecast") /\ ~IsObj(d.v.forecast)
    \/ Has(d, "forecast") /\ Has(d.v.forecast, "forecastday")
         /\ BadForecastday(d.v.forecast.v.forecastday)

\* The upstream forecastday value, [] when absent.
UpstreamDays == IF Has(Data, "forecast") THEN Up(Data.v.forecast, "forecastday") ELSE Null
HasDayList == Decoded /\ Has(Data, "forecast") /\ Has(Data.v.forecast, "forecastday")
                /\ UpstreamDays.k = "list"
NonListDays == Decoded /\ Has(Data, "forecast") /\ Has(Data.v.forecast, "forecastday")
                /\ UpstreamDays.k # "list"

Is2xx == Responded /\ 200 <= Status /\ Status <= 299
Is4xx5xx == Responded /\ 400 <= Status /\ Status <= 599

\* The failures of the request as the code classifies them.
HttpFailure == Is4xx5xx
OtherFailure ==
    /\ KeySet
    /\ ~Is4xx5xx
    /\ \/ weather.outcome.net \in {"timeout", "connerr"}
       \/ Responded /\ Body.k # "jsontext"
       \/ Decoded /\ Untraversable(Data)

\* The failures as the specification lists them: any status outside 2xx,
\* and any forecastday that is not a list.
ListedHttpFailure == Responded /\ ~Is2xx
ListedOtherFailure ==
    /\ KeySet
    /\ ~ListedHttpFailure
    /\ \/ weather.outcome.net \in {"timeout", "connerr"}
       \/ Responded /\ Body.k # "jsontext"
       \/ Decoded /\ Untraversable(Data)
       \/ NonListDays

(***************************************************************************)
(* C1                                                                      *)
(***************************************************************************)
\* C1 as stated: every invocation of get_weather returns a string and raises
\* nothing, and every failure outcome listed by the specification (any
\* non-2xx status, timeout, connection error, non-JSON body, unexpected
\* shape including any non-list forecastday) returns a JSON object text
\* with an "error" key.
C1_AsStated ==
    Invoked =>
      /\ ReturnedText
      /\ (ListedHttpFailure \/ ListedOtherFailure) => ErrorPayload

\* C1 amended: every invocation of get_weather returns a string and raises
\* nothing; every outcome with a 4xx or 5xx status, a timeout, a connection
\* error, a non-JSON body or a decoded body the reduction cannot traverse
\* (an empty str or empty object as forecastday is traversed as no days)
\* returns a JSON object text with an "error" key.
C1_NeverRaises ==
    Invoked =>
      /\ ReturnedText
      /\ (HttpFailure \/ OtherFailure) => ErrorPayload

\* C1 witness: a null location in a 200 response came back as an error text.
C1_Witness ==
    /\ Decoded /\ Status = 200
    /\ Has(Data, "location") /\ Data.v.location = Null
    /\ ErrorPayload

(***************************************************************************)
(* C3                                                                      *)
(***************************************************************************)
\* C3: when WEATHER_API_KEY is unset or empty, get_weather returns a payload
\* with an "error" key and no "forecast" key and issues no HTTP request.
C3_MissingKey ==
    (Invoked /\ ~KeySet) =>
      /\ ErrorPayload
      /\ ~Has(Payload, "forecast")
      /\ weather.requests = <<>>
      /\ httpLog = <<>>

\* C3 witness: get_weather ran with an empty (set but blank) credential.
C3_Witness ==
    /\ Invoked /\ weather.api_key = Str("")
    /\ ErrorPayload /\ httpLog = <<>>

(***************************************************************************)
(* C4                                                                      *)
(***************************************************************************)
\* C4 as stated: for every successful 2xx response, however many entries
\* the upstream forecastday list holds, the forecast of the summary has a
\* length between 0 and 7.
C4_AsStated ==
    (Is2xx /\ SummaryPayload) =>
      /\ Payload.v.forecast.k = "list"
      /\ Len(Payload.v.forecast.v) >= 0
      /\ Len(Payload.v.forecast.v) <= 7

\* C4 amended: for every successful 2xx response the forecast of the summary
\* has as many entries as the upstream forecastday list, so its length is
\* between 0 and 7 exactly when the upstream list holds at most 7 entries.
C4_LengthFollowsUpstream ==
    (Is2xx /\ SummaryPayload /\ HasDayList) =>
      /\ Payload.v.forecast.k = "list"
      /\ Len(Payload.v.forecast.v) = Len(UpstreamDays.v)
      /\ (Len(UpstreamDays.v) <= 7 <=> Len(Payload.v.forecast.v) \in 0..7)

\* C4 witness: an upstream list of 8 days was summarised.
C4_Witness ==
    /\ Is2xx /\ SummaryPayload /\ HasDayList
    /\ Len(UpstreamDays.v) = 8

(***************************************************************************)
(* C5                                                                      *)
(***************************************************************************)
\* C5: the forecast of the summary has the length of the upstream
\* forecastday list and its i-th entry carries the date and the day values
\* of the i-th upstream entry: no reordering, deduplication or dropping.
C5_OrderPreserved ==
    (Is2xx /\ SummaryPayload /\ HasDayList) =>
      /\ Len(Payload.v.forecast.v) = Len(UpstreamDays.v)
      /\ \A i \in 1..Len(UpstreamDays.v) :
           LET e == Payload.v.forecast.v[i]
               u == UpstreamDays.v[i]
               d == Up(u, "day")
           IN /\ e.v.date = Up(u, "date")
              /\ e.v.maxtemp_c = Up(d, "maxtemp_c")
              /\ e.v.mintemp_c = Up(d, "mintemp_c")
              /\ e.v.daily_chance_of_rain = Up(d, "daily_chance_of_rain")

\* C5 witness: two upstream days out of chronological order were summarised.
C5_Witness ==
    /\ Is2xx /\ SummaryPayload /\ HasDayList
    /\ UpstreamDays.v = <<WellDay(2), WellDay(1)>>

(***************************************************************************)
(* C6                                                                      *)
(***************************************************************************)
LocationFields == {"name", "region", "country", "localtime", "lat", "lon"}
CurrentFields == {"temp_c", "feelslike_c", "wind_kph", "humidity", "cloud"}
EntryFields == {"date", "maxtemp_c", "mintemp_c", "daily_chance_of_rain", "condition"}
DayFields == {"maxtemp_c", "mintemp_c", "daily_chance_of_rain"}

\* C6: for a 2xx response whose decoded body is traversable, get_weather
\* returns the summary (no error payload); every forecast entry has all five
\* allow-listed keys; every allow-listed field is the upstream value, and
\* null when the field or an enclosing object is absent upstream.
C6_AbsentIsNull ==
    (Is2xx /\ Decoded /\ ~Untraversable(Data)) =>
      /\ SummaryPayload
      /\ ~Has(Payload, "error")
      /\ \A f \in LocationFields : Payload.v.location.v[f] = Up(Up(Data, "location"), f)
      /\ \A f \in CurrentFields : Payload.v.current.v[f] = Up(Up(Data, "current"), f)
      /\ Payload.v.current.v.condition = Up(Up(Up(Data, "current"), "condition"), "text")
      /\ \A i \in 1..Len(Payload.v.forecast.v) :
           LET e == Payload.v.forecast.v[i]
           IN /\ IsObj(e)
              /\ DOMAIN e.v = EntryFields
              /\ HasDayList =>
                   /\ \A f \in DayFields : e.v[f] = Up(Up(UpstreamDays.v[i], "day"), f)
                   /\ ~Has(UpstreamDays.v[i], "day") => e.v.condition = Null
                   /\ ~Has(Up(UpstreamDays.v[i], "day"), "condition") => e.v.condition = Null

\* C6 witness: an entry without a day object, under absent location and
\* current, was summarised with nulls.
C6_Witness ==
    /\ Is2xx /\ SummaryPayload /\ HasDayList
    /\ ~Has(Data, "location") /\ ~Has(Data, "current")
    /\ Payload.v.location.v.name = Null
    /\ Len(UpstreamDays.v) >= 1
    /\ ~Has(UpstreamDays.v[1], "day")
    /\ Payload.v.forecast.v[1].v.maxtemp_c = Null

(***************************************************************************)
(* C7                                                                      *)
(***************************************************************************)
UnexpectedMessages ==
    {"Read timed out. (read timeout=15)", "Failed to establish a new connection",
     "Expecting value: line 1 column 1 (char 0)"}
    \cup {"'" \o t \o "' object has no attribute 'get'" : t \in {"NoneType", "int", "str", "list"}}
    \cup {"'" \o t \o "' object is not iterable" : t \in {"NoneType", "int"}}

\* C7 as stated: every response with a status outside 2xx yields an error
\* payload with a details key; every other failure (timeout, network error,
\* malformed JSON, a shape the reduction cannot traverse) yields an error
\* payload without details; no failure yields a forecast key.
C7_AsStated ==
    Invoked =>
      /\ ListedHttpFailure => (ErrorPayload /\ Has(Payload, "details") /\ ~Has(Payload, "forecast"))
      /\ (OtherFailure /\ ~ListedHttpFailure) =>
           (ErrorPayload /\ ~Has(Payload, "details") /\ ~Has(Payload, "forecast"))

\* C7 amended: every response with a 4xx or 5xx status yields an error
\* string made of the HTTP status and a details key holding the raw body;
\* every other failure (timeout, network error, malformed JSON, a decoded
\* body the reduction cannot traverse, under a status outside 4xx/5xx)
\* yields an error string carrying the exception message and no details key;
\* an error payload has a details key only in the first case and never a
\* forecast key.
C7_Classification ==
    Invoked =>
      /\ HttpFailure =>
           /\ ErrorPayload
           /\ Payload.v.error.v = "HTTP error from WeatherAPI: " \o ToString(Status)
                                    \o (IF Status < 500 THEN " Client Error" ELSE " Server Error")
           /\ Has(Payload, "details")
           /\ Payload.v.details = Body
           /\ ~Has(Payload, "forecast")
      /\ OtherFailure =>
           /\ ErrorPayload
           /\ \E m \in UnexpectedMessages : Payload.v.error.v = "Unexpected error: " \o m
           /\ ~Has(Payload, "details")
           /\ ~Has(Payload, "forecast")
      /\ ErrorPayload => (Has(Payload, "details") <=> HttpFailure)

\* C7 witness: a 401 response came back as an HTTP error with its body.
C7_Witness ==
    /\ Responded /\ Status = 401 /\ Body = ErrorBody
    /\ ErrorPayload
    /\ Payload.v.details = ErrorBody

(***************************************************************************)
(* C10                                                                     *)
(***************************************************************************)
\* C10: an invocation of get_weather issues at most one HTTP request: one
\* when the credential is set, none otherwise, always with days=7, aqi=no,
\* alerts=no and timeout 15; after a timeout or connection failure it
\* returns an error payload having issued that single request.
C10_NoRetry ==
    Invoked =>
      /\ Len(weather.requests) <= 1
      /\ KeySet => Len(weather.requests) = 1
      /\ ~KeySet => Len(weather.requests) = 0
      /\ httpLog = weather.requests
      /\ \A i \in 1..Len(weather.requests) :
           /\ weather.requests[i].days = 7
           /\ weather.requests[i].aqi = "no"
           /\ weather.requests[i].alerts = "no"
           /\ weather.requests[i].timeout = 15
           /\ weather.requests[i].q = weather.destination
      /\ (KeySet /\ weather.outcome.net \in {"timeout", "connerr"}) =>
           (ErrorPayload /\ Len(httpLog) = 1)

\* C10 witness: the request timed out and one request had been issued.
C10_Witness ==
    /\ KeySet /\ weather.outcome.net = "timeout"
    /\ ErrorPayload
    /\ Len(httpLog) = 1

(***************************************************************************)
(* C2                                                                      *)
(***************************************************************************)
\* C2 as stated: when the search provider fails during search_attractions,
\* the failure is recovered inside the tool: no fault is raised past the
\* tool into run_query / main and the run goes on.
C2_AsStated ==
    (search.called /\ search.failed) => (fault = NoExc /\ pc # "crashed")

(***************************************************************************)
(* C8                                                                      *)
(***************************************************************************)
Blank(s) == \A i \in 1..Len(s) : s[i] \in Whitespace

\* The input holds nothing but whitespace.
InputBlank ==
    IF input.argv # <<>>
    THEN \A i \in 1..Len(input.argv) : Blank(input.argv[i])
    ELSE Blank(input.line)

\* C8: when the destination is empty after trimming, main prints
\* "No destination provided." and exits with status 1 before any agent is
\* built: no decision-maker call, no weather or search call, no file write.
C8_EmptyDestination ==
    (pc # "main" /\ InputBlank) =>
      /\ pc = "exited"
      /\ stdout = <<"No destination provided.">>
      /\ exitStatus = 1
      /\ ~agentBuilt
      /\ llmCalls = 0
      /\ ~weather.called
      /\ httpLog = <<>>
      /\ ~search.called
      /\ outFile = <<>>

\* C8 witness: a prompt answered with whitespace only ended the run.
C8_Witness ==
    /\ pc = "exited"
    /\ input.argv = <<>>
    /\ input.line = <<"\t", " ">>
    /\ exitStatus = 1

(***************************************************************************)
(* C9                                                                      *)
(***************************************************************************)
Printed == \E i \in 1..Len(stdout) : stdout[i] = "output"

C9_State ==
    /\ llmFailed =>
         /\ pc = "crashed"
         /\ exitStatus = 1
         /\ fault.type = "LLMError"
         /\ ~Printed
         /\ outFile = <<>>
    /\ outFile # <<>> => (~llmFailed /\ llmCalls >= 1 /\ Printed)

\* C9: a failed decision-maker call is neither recovered nor retried: the
\* run ends crashed with nothing printed and no file written, and no further
\* decision-maker call follows; the output file is only ever written after
\* the final text was printed in a run whose decision-maker calls succeeded.
C9_FatalLLMFailure ==
    /\ []C9_State
    /\ [][llmFailed => (llmCalls' = llmCalls /\ pc' = "crashed")]_vars
    /\ [][outFile' # outFile => (Printed /\ ~llmFailed /\ llmCalls >= 1)]_vars

\* C9 witness: the second decision-maker call failed and the run crashed.
C9_Witness ==
    /\ llmFailed
    /\ llmCalls = 2
    /\ pc = "crashed"

====
